---- MODULE Spec2Model ----
(***************************************************************************)
(* A model of the okta client of src/api.go: the Client and its five       *)
(* operations (Authenticate, Session, User, Groups, AppLinks), the         *)
(* internal call path, and the identity provider the client talks to.      *)
(*                                                                         *)
(* Strings are sequences of tokens (each token a TLA+ string), so that     *)
(* concatenation is \o and strings.Split / strings.Replace act on them as  *)
(* they act on the characters of a Go string.  An optional value (a nil    *)
(* pointer, a nil error) is a sequence of length 0 or 1.                   *)
(***************************************************************************)
EXTENDS Integers, Sequences, FiniteSets, TLC

\* ------------------------------------------------------------- bounds

\* The longest chain of pages the provider serves for one listing.
MaxPages == 3

\* The numbers of items a page may hold.
PageLens == {0, 1}
\* The most items the provider ever lets one Groups call accumulate.
MaxAccum == MaxPages
\* The request counter of one operation saturates here.
ReqCap == MaxPages + 1

\* ------------------------------------------------------------- inputs

Callers == {1, 2}
Orgs == {"acme"}
Domains == {"okta.com", "oktapreview.com"}
Tokens == {"", "00abc"}
\* "%zz" is a malformed escape: url.Parse rejects a URL that holds it.
UserIDs == {"u1", "%zz"}
AppNames == {"", "MyApp"}
Usernames == {"alice"}
Passwords == {"pw"}
SessionTokens == {"tok123"}
SessionIDs == {"s1", "s2"}
ErrorCodes == {"E0000004"}
Statuses == {200, 401, 404}
\* The user whose groups the provider lists.
ProvUser == "u1"
BadTokens == {"%zz"}

\* ------------------------------------------------------------- strings

Empty == << >>

\* strings.Split(s, sep)[0]: s up to its first sep, all of s without one.
RECURSIVE SplitFirst(_, _)
SplitFirst(s, sep) ==
    IF s = Empty THEN Empty
    ELSE IF Head(s) = sep THEN Empty
    ELSE <<Head(s)>> \o SplitFirst(Tail(s), sep)

\* strings.Replace(s, old, new, -1) for a non-empty old.
RECURSIVE ReplaceAll(_, _, _)
ReplaceAll(s, old, new) ==
    IF Len(s) < Len(old) THEN s
    ELSE IF SubSeq(s, 1, Len(old)) = old
         THEN new \o ReplaceAll(SubSeq(s, Len(old) + 1, Len(s)), old, new)
         ELSE <<Head(s)>> \o ReplaceAll(Tail(s), old, new)

\* "https://" + c.org + "." + c.Url + "/api/v1/" + endpoint
FullURL(o, d, endpoint) == <<"https://", o, ".", d, "/api/v1/">> \o endpoint

\* http.NewRequest fails exactly when url.Parse rejects the URL.
ValidURL(u) == \A i \in 1..Len(u) : u[i] \notin BadTokens

\* fmt.Sprintf("<https://%s.okta.com/api/v1/", c.org)
LinkPrefix(o) == <<"<", "https://", o, ".", "okta.com", "/api/v1/">>

\* The rewriting of a next-page link into an endpoint (Groups).
Rewrite(link, o) ==
    ReplaceAll(ReplaceAll(SplitFirst(link, ";"), LinkPrefix(o), Empty),
               <<">">>, Empty)

\* ------------------------------------------------------------- values

NoErr == << >>
MkErr(kind, code, errorCode, endpoint) ==
    <<[kind |-> kind, HTTPCode |-> code, ErrorCode |-> errorCode,
       Endpoint |-> endpoint]>>

\* The zero value of a result: &AuthnResponse{}, &[]Group{}, ...
ZeroDest == [ID |-> "", items |-> Empty]

\* The shape of JSON each operation's destination accepts.
DestShape(o) == IF o \in {"Groups", "AppLinks"} THEN "array" ELSE "object"

\* The initial endpoint, method and request of each operation.
GroupsEndpoint(userID) == <<"users/", userID, "/groups?limit=200">>

AppLinksEndpoint(userID, appName) ==
    <<"users/", userID, "/appLinks">> \o
    (IF appName /= "" THEN <<"?", "filter=appName+eq+%22", appName, "%22">>
     ELSE Empty)

\* NewCookie with a fault: the cookie holds the session token, not the ID.
NewCookieFromToken(id, tok, o, d) ==
    [Name |-> "sid", Value |-> tok, Path |-> "/", Domain |-> <<o, ".", d>>,
     Secure |-> TRUE, HttpOnly |-> TRUE]

\* The cookie Session stores.
NewCookie(id, tok, o, d) ==
    [Name |-> "sid", Value |-> id, Path |-> "/", Domain |-> <<o, ".", d>>,
     Secure |-> TRUE, HttpOnly |-> TRUE]

\* http.Cookie.String() of the stored cookie, the value of the Cookie header.
CookieString(c) ==
    <<c.Name, "=", c.Value, "; Path=", c.Path, "; Domain=">> \o c.Domain \o
    <<"; HttpOnly", "; Secure">>

\* ------------------------------------------------------------- provider

VARIABLES
    org, Url, ApiToken, SessionCookie,   \* the Client
    nPages, pageLen,                     \* the provider's listing
    op, pc, callArgs, callRet,           \* each caller's operation and call
    response, nextLink, result,          \* Groups' locals; the value returned
    lastReq, nreq, opCookies, lastResp,  \* history of the current operation
    healthy, intruded, lastSessionID,    \* history
    opUser                               \* the userID of the operation

vars == <<org, Url, ApiToken, SessionCookie, nPages, pageLen, op, pc,
          callArgs, callRet, response, nextLink, result, lastReq, nreq,
          opCookies, lastResp, healthy, intruded, lastSessionID, opUser>>

clientVars == <<org, Url, ApiToken>>
provVars == <<nPages, pageLen>>

\* Page k of the listing: its items, its endpoint, its URL, its links.
PageItems(k) == [j \in 1..pageLen[k] |-> <<k, j>>]

PageEndpoint(k) ==
    IF k = 1 THEN GroupsEndpoint(ProvUser)
    ELSE <<"users/", ProvUser, "/groups?after=", ToString(k), "&limit=200">>

PageURL(k) == FullURL(org, Url, PageEndpoint(k))

LinkTo(k, rel) == <<"<">> \o PageURL(k) \o <<">", ";", rel>>
SelfLink(k) == LinkTo(k, " rel=\"self\"")
NextLinkTo(k) == LinkTo(k, " rel=\"next\"")

\* The page a URL addresses, 0 when it addresses none.
PageOf(u) ==
    IF \E k \in 1..nPages : PageURL(k) = u
    THEN CHOOSE k \in 1..nPages : PageURL(k) = u
    ELSE 0

RECURSIVE ConcatPages(_)
ConcatPages(k) == IF k = 0 THEN Empty ELSE ConcatPages(k - 1) \o PageItems(k)

ObjBody(id, code) ==
    [shape |-> "object", id |-> id, errorCode |-> code, items |-> Empty]
ArrBody(items) ==
    [shape |-> "array", id |-> "", errorCode |-> "", items |-> items]
BadBody == [shape |-> "invalid", id |-> "", errorCode |-> "", items |-> Empty]

\* The bodies of a 200 answer, and those of an answer of another status.
OKBodies(k) ==
    {ArrBody(IF k > 0 THEN PageItems(k) ELSE Empty), BadBody}
    \cup {ObjBody(id, "") : id \in SessionIDs}
ErrBodies == {BadBody} \cup {ObjBody("s1", c) : c \in ErrorCodes}

\* The values of the Link header a response may carry.
LinkChoices(k) ==
    IF k = 0 THEN {Empty}
    ELSE {Empty, <<SelfLink(k)>>, <<SelfLink(k), NextLinkTo(k + 1)>>,
          <<SelfLink(k), NextLinkTo(k)>>,
          <<SelfLink(k), NextLinkTo(k + 1), LinkTo(k, " rel=\"prev\"")>>}

ErrLinkChoices(k) ==
    IF k = 0 THEN {Empty} ELSE {Empty, <<SelfLink(k), NextLinkTo(k + 1)>>}

HttpResp(status, body, links) ==
    [kind |-> "http", status |-> status, body |-> body, links |-> links]
FailResp(kind) ==
    [kind |-> kind, status |-> 0, body |-> BadBody, links |-> Empty]
NoResp == FailResp("none")

\* Everything the provider (or the network) may answer to a request for u.
Responses(u) ==
    {FailResp("transport"), FailResp("read")}
    \cup {HttpResp(200, b, l) : b \in OKBodies(PageOf(u)),
                                 l \in LinkChoices(PageOf(u))}
    \cup {HttpResp(s, b, l) : s \in Statuses \ {200}, b \in ErrBodies,
                               l \in ErrLinkChoices(PageOf(u))}

\* The answer of a provider that serves its listing as the chain of pages
\* 1..nPages and knows no other URL.
ChainResp(u) ==
    LET k == PageOf(u) IN
    IF k = 0 THEN HttpResp(404, ObjBody("s1", "E0000004"), Empty)
    ELSE HttpResp(200, ArrBody(PageItems(k)),
                  IF k < nPages THEN <<SelfLink(k), NextLinkTo(k + 1)>>
                  ELSE <<SelfLink(k)>>)

\* ------------------------------------------------------------- call

\* json.Unmarshal(body, &response) at status 200: the error and the
\* destination afterwards.
DecodeOK(o, body) == body.shape = DestShape(o)
Decoded(body) == [ID |-> body.id, items |-> body.items]

\* json.Unmarshal(body, &errors) at another status: the ErrorCode it leaves
\* (a body that does not parse leaves it empty).
ParsedErrorCode(body) == IF body.shape = "object" THEN body.errorCode ELSE ""

\* LinkOf with a fault: the last Link value whenever there are at least two.
LinkOfLast(links) == IF Len(links) >= 2 THEN links[Len(links)] ELSE Empty

\* resp.Header.Values("Link"): the second value when there are exactly two.
LinkOf(links) == IF Len(links) = 2 THEN links[2] ELSE Empty

\* CallResult with a fault: a non-200 body is decoded into the destination.
CallResultDecodeAlways(o, url, resp, dest) ==
    IF resp.kind /= "http"
    THEN [err |-> MkErr(resp.kind, 0, "", Empty), link |-> Empty, dest |-> dest]
    ELSE IF ~DecodeOK(o, resp.body)
    THEN [err |-> MkErr("decode", 0, "", Empty), link |-> Empty, dest |-> dest]
    ELSE IF resp.status = 200
    THEN [err |-> NoErr, link |-> LinkOf(resp.links),
          dest |-> Decoded(resp.body)]
    ELSE [err |-> MkErr("status", resp.status, ParsedErrorCode(resp.body), url),
          link |-> Empty, dest |-> Decoded(resp.body)]

\* What call returns once client.Do has answered with resp: the error, the
\* next-page link, and the destination as call leaves it.
CallResult(o, url, resp, dest) ==
    IF resp.kind /= "http"
    THEN [err |-> MkErr(resp.kind, 0, "", Empty), link |-> Empty, dest |-> dest]
    ELSE IF resp.status = 200
    THEN IF DecodeOK(o, resp.body)
         THEN [err |-> NoErr, link |-> LinkOf(resp.links),
               dest |-> Decoded(resp.body)]
         ELSE [err |-> MkErr("decode", 0, "", Empty), link |-> Empty,
               dest |-> dest]
    ELSE [err |-> MkErr("status", resp.status, ParsedErrorCode(resp.body), url),
          link |-> Empty, dest |-> dest]

NoReq ==
    [method |-> "", url |-> Empty, body |-> Empty, Accept |-> "",
     ContentType |-> "", Authorization |-> Empty, Cookie |-> Empty]

\* BuildRequest with a fault: the cookie is attached to the first request of
\* an operation only.
BuildRequestFirstOnly(p) ==
    [method |-> callArgs[p].method,
     url |-> FullURL(org, Url, callArgs[p].endpoint),
     body |-> callArgs[p].request,
     Accept |-> "application/json",
     ContentType |-> "application/json",
     Authorization |-> IF ApiToken /= "" THEN <<"SSWS ", ApiToken>> ELSE Empty,
     Cookie |-> IF SessionCookie /= Empty /\ nreq[p] = 0
                THEN CookieString(SessionCookie[1]) ELSE Empty]

\* The request call builds: its URL, its body and its headers.
BuildRequest(p) ==
    [method |-> callArgs[p].method,
     url |-> FullURL(org, Url, callArgs[p].endpoint),
     body |-> callArgs[p].request,
     Accept |-> "application/json",
     ContentType |-> "application/json",
     Authorization |-> IF ApiToken /= "" THEN <<"SSWS ", ApiToken>> ELSE Empty,
     Cookie |-> IF SessionCookie /= Empty
                THEN CookieString(SessionCookie[1]) ELSE Empty]

NoRet == [err |-> NoErr, link |-> Empty, dest |-> ZeroDest]
NoArgs == [endpoint |-> Empty, method |-> "", request |-> Empty]
NoResult == [set |-> FALSE, val |-> ZeroDest, err |-> NoErr]

Bump(n) == IF n < ReqCap THEN n + 1 ELSE n

\* ------------------------------------------------------------- Init

\* A client made by NewClient(org), its exported fields Url and ApiToken
\* set by the caller, no session yet; a provider with a listing of nPages
\* pages.
Init ==
    /\ org \in Orgs
    /\ Url \in Domains
    /\ ApiToken \in Tokens
    /\ SessionCookie = Empty
    /\ nPages \in 1..MaxPages
    /\ pageLen \in [1..(MaxPages + 1) -> PageLens \cup {0}]
    /\ \A k \in (nPages + 1)..(MaxPages + 1) : pageLen[k] = 0
    /\ op = [p \in Callers |-> "none"]
    /\ pc = [p \in Callers |-> "idle"]
    /\ callArgs = [p \in Callers |-> NoArgs]
    /\ callRet = [p \in Callers |-> NoRet]
    /\ response = [p \in Callers |-> Empty]
    /\ nextLink = [p \in Callers |-> Empty]
    /\ result = [p \in Callers |-> NoResult]
    /\ lastReq = [p \in Callers |-> NoReq]
    /\ nreq = [p \in Callers |-> 0]
    /\ opCookies = [p \in Callers |-> {}]
    /\ lastResp = [p \in Callers |-> NoResp]
    /\ healthy = [p \in Callers |-> TRUE]
    /\ intruded = [p \in Callers |-> FALSE]
    /\ lastSessionID = Empty
    /\ opUser = [p \in Callers |-> ""]

\* ------------------------------------------------------------- operations

\* The entry of an operation: its locals, and the arguments of its call.
Enter(p, o, userID, endpoint, method, request) ==
    /\ pc[p] = "idle"
    /\ op' = [op EXCEPT ![p] = o]
    /\ pc' = [pc EXCEPT ![p] = "call"]
    /\ callArgs' = [callArgs EXCEPT ![p] =
           [endpoint |-> endpoint, method |-> method, request |-> request]]
    /\ callRet' = [callRet EXCEPT ![p] = NoRet]
    /\ response' = [response EXCEPT ![p] = Empty]
    /\ nextLink' = [nextLink EXCEPT ![p] = IF o = "Groups" THEN endpoint ELSE Empty]
    /\ result' = [result EXCEPT ![p] = NoResult]
    /\ lastReq' = [lastReq EXCEPT ![p] = NoReq]
    /\ nreq' = [nreq EXCEPT ![p] = 0]
    /\ opCookies' = [opCookies EXCEPT ![p] = {}]
    /\ lastResp' = [lastResp EXCEPT ![p] = NoResp]
    /\ healthy' = [healthy EXCEPT ![p] = TRUE]
    /\ intruded' = [intruded EXCEPT ![p] = FALSE]
    /\ opUser' = [opUser EXCEPT ![p] = userID]
    /\ UNCHANGED <<clientVars, SessionCookie, provVars, lastSessionID>>

Authenticate(p) ==
    \E u \in Usernames, w \in Passwords :
        Enter(p, "Authenticate", "", <<"authn">>, "POST",
              <<"username", u, "password", w>>)

Session(p) ==
    \E t \in SessionTokens :
        Enter(p, "Session", "", <<"sessions">>, "POST", <<"sessionToken", t>>)

User(p) ==
    \E u \in UserIDs :
        Enter(p, "User", u, <<"users/", u>>, "GET", <<"null">>)

Groups(p) ==
    \E u \in UserIDs :
        Enter(p, "Groups", u, GroupsEndpoint(u), "GET", <<"null">>)

AppLinks(p) ==
    \E u \in UserIDs, a \in AppNames :
        Enter(p, "AppLinks", u, AppLinksEndpoint(u, a), "GET", <<"null">>)

\* call, up to client.Do: the request is built from the client's fields as
\* they are now and sent; a URL that does not parse returns the error at once.
CallSend(p) ==
    /\ pc[p] = "call"
    /\ LET req == BuildRequest(p) IN
       IF ValidURL(req.url)
       THEN /\ pc' = [pc EXCEPT ![p] = "wait"]
            /\ lastReq' = [lastReq EXCEPT ![p] = req]
            /\ nreq' = [nreq EXCEPT ![p] = Bump(nreq[p])]
            /\ opCookies' = [opCookies EXCEPT ![p] = @ \cup {req.Cookie}]
            /\ UNCHANGED callRet
       ELSE /\ pc' = [pc EXCEPT ![p] = "ret"]
            /\ callRet' = [callRet EXCEPT ![p] =
                   [err |-> MkErr("newrequest", 0, "", Empty), link |-> Empty,
                    dest |-> ZeroDest]]
            /\ UNCHANGED <<lastReq, nreq, opCookies>>
    /\ UNCHANGED <<clientVars, SessionCookie, provVars, op, callArgs, response,
                   nextLink, result, lastResp, healthy, intruded, lastSessionID,
                   opUser>>

\* call, from client.Do on: the provider answers with one of the answers R
\* and call returns.
Receive(p, R) ==
    /\ pc[p] = "wait"
    /\ \E resp \in R :
         LET ret == CallResult(op[p], lastReq[p].url, resp, ZeroDest) IN
         /\ Len(response[p]) + Len(ret.dest.items) <= MaxAccum
         /\ callRet' = [callRet EXCEPT ![p] = ret]
         /\ lastResp' = [lastResp EXCEPT ![p] = resp]
         /\ healthy' = [healthy EXCEPT ![p] =
                @ /\ resp = ChainResp(lastReq[p].url)]
    /\ pc' = [pc EXCEPT ![p] = "ret"]
    /\ UNCHANGED <<clientVars, SessionCookie, provVars, op, callArgs, response,
                   nextLink, result, lastReq, nreq, opCookies, intruded,
                   lastSessionID, opUser>>

CallReceive(p) == Receive(p, Responses(lastReq[p].url))

Return(p, val, err) ==
    /\ pc' = [pc EXCEPT ![p] = "idle"]
    /\ result' = [result EXCEPT ![p] = [set |-> TRUE, val |-> val, err |-> err]]

\* Authenticate, User and AppLinks after their call: return response, err.
SimpleReturn(p) ==
    /\ pc[p] = "ret"
    /\ op[p] \in {"Authenticate", "User", "AppLinks"}
    /\ Return(p, callRet[p].dest, callRet[p].err)
    /\ UNCHANGED <<clientVars, SessionCookie, provVars, op, callArgs, callRet,
                   response, nextLink, lastReq, nreq, opCookies, lastResp,
                   healthy, intruded, lastSessionID, opUser>>

\* SessionStores with a fault: the cookie is stored whatever the error.
SessionStoresAlways(err) == TRUE

\* Session stores the cookie exactly when its call returned no error.
SessionStores(err) == err = NoErr

\* Session after its call.
SessionReturn(p) ==
    /\ pc[p] = "ret"
    /\ op[p] = "Session"
    /\ IF SessionStores(callRet[p].err)
       THEN /\ SessionCookie' =
                 <<NewCookie(callRet[p].dest.ID, callArgs[p].request[2], org, Url)>>
            /\ lastSessionID' = <<callRet[p].dest.ID>>
            /\ intruded' = [q \in Callers |->
                   IF q /= p /\ pc[q] /= "idle" THEN TRUE ELSE intruded[q]]
       ELSE UNCHANGED <<SessionCookie, lastSessionID, intruded>>
    /\ Return(p, callRet[p].dest, callRet[p].err)
    /\ UNCHANGED <<clientVars, provVars, op, callArgs, callRet, response,
                   nextLink, lastReq, nreq, opCookies, lastResp, healthy, opUser>>

\* GroupsErrValue with a fault: the accumulated pages are returned on error.
GroupsErrValueAccumulated(acc, resp) == [ID |-> "", items |-> acc \o resp.items]

\* What Groups returns beside the error: the failing page's buffer.
GroupsErrValue(acc, resp) == [ID |-> "", items |-> resp.items]

\* *response = append(*response, *resp...)
GroupsAppend(acc, resp) == acc \o resp.items

\* GroupsFails with a fault: the error of a page's call is ignored.
GroupsFailsNever(err) == FALSE

\* if err != nil { return resp, err }
GroupsFails(err) == err /= NoErr

\* GroupsStops with a fault: the loop goes on after an empty next link.
GroupsStopsNever(link) == FALSE

\* if nextLink == "" { break }
GroupsStops(link) == link = Empty

\* One turn of the loop of Groups after its call.
GroupsReturn(p) ==
    /\ pc[p] = "ret"
    /\ op[p] = "Groups"
    /\ IF GroupsFails(callRet[p].err)
       THEN /\ Return(p, GroupsErrValue(response[p], callRet[p].dest),
                      callRet[p].err)
            /\ UNCHANGED <<response, nextLink, callArgs>>
       ELSE LET acc == GroupsAppend(response[p], callRet[p].dest)
                nl == Rewrite(callRet[p].link, org)
            IN /\ response' = [response EXCEPT ![p] = acc]
               /\ nextLink' = [nextLink EXCEPT ![p] = nl]
               /\ IF GroupsStops(nl)
                  THEN /\ Return(p, [ID |-> "", items |-> acc], NoErr)
                       /\ UNCHANGED callArgs
                  ELSE /\ pc' = [pc EXCEPT ![p] = "call"]
                       /\ callArgs' = [callArgs EXCEPT ![p].endpoint = nl]
                       /\ UNCHANGED result
    /\ UNCHANGED <<clientVars, SessionCookie, provVars, op, callRet, lastReq,
                   nreq, opCookies, lastResp, healthy, intruded, lastSessionID,
                   opUser>>

Step(p) ==
    \/ Authenticate(p)
    \/ Session(p)
    \/ User(p)
    \/ Groups(p)
    \/ AppLinks(p)
    \/ CallSend(p)
    \/ CallReceive(p)
    \/ SimpleReturn(p)
    \/ SessionReturn(p)
    \/ GroupsReturn(p)

\* One caller at a time: the client used as the spec says it is to be used.
Next == Step(1)

Spec == Init /\ [][Next]_vars

\* Two callers on one client with no synchronization between them: caller 1
\* lists groups while caller 2 establishes sessions.  A step reads or writes
\* c.SessionCookie once: the pointer a racing read sees is the old one or the
\* new one, and the cookie it points to is never written again.  The client
\* has no API token.
ConcInit ==
    /\ Init
    /\ ApiToken = ""

\* There the provider serves its chain, or a session, or the network fails.
ConcResponses(u) ==
    {FailResp("transport"), ChainResp(u)}
    \cup {HttpResp(200, ObjBody(id, ""), Empty) : id \in SessionIDs}

ConcNext ==
    \/ Groups(1)
    \/ CallSend(1)
    \/ Receive(1, ConcResponses(lastReq[1].url))
    \/ GroupsReturn(1)
    \/ Session(2)
    \/ CallSend(2)
    \/ Receive(2, ConcResponses(lastReq[2].url))
    \/ SessionReturn(2)

ConcSpec == ConcInit /\ [][ConcNext]_vars

\* One caller listing groups, again and again, on a client with no API
\* token.  The caller's own steps are taken once they can be (the code runs
\* on), and every request returns.
LiveInit == Init /\ ApiToken = ""

LiveNext ==
    \/ Groups(1)
    \/ CallSend(1)
    \/ CallReceive(1)
    \/ GroupsReturn(1)

LiveSpec ==
    /\ LiveInit
    /\ [][LiveNext]_vars
    /\ WF_vars(CallSend(1))
    /\ WF_vars(CallReceive(1))
    /\ WF_vars(GroupsReturn(1))

\* ------------------------------------------------------------- claims

Returned(p, o) == op[p] = o /\ pc[p] = "idle" /\ result[p].set
GroupsActive(p) == op[p] = "Groups" /\ pc[p] /= "idle"
SimpleOps == {"Authenticate", "Session", "User", "AppLinks"}

\* C1: against a provider that serves the listing of the user as the chain
\* of pages 1..nPages (200 for each page, a next link on every page but the
\* last), Groups requests page 1, page 2, ... in that order, nPages requests
\* in all, and returns the pages' items concatenated in order, with no error.
C1_GroupsReturnsChain ==
    \A p \in Callers :
        /\ (op[p] = "Groups" /\ opUser[p] = ProvUser /\ healthy[p]
            /\ pc[p] = "wait" /\ nreq[p] <= nPages)
           => lastReq[p].url = PageURL(nreq[p])
        /\ (Returned(p, "Groups") /\ opUser[p] = ProvUser /\ healthy[p])
           => /\ result[p].err = NoErr
              /\ result[p].val.items = ConcatPages(nPages)
              /\ nreq[p] = nPages

\* The same on a client whose domain is the one NewClient sets.
C1_OnDefaultDomain == Url = "okta.com" => C1_GroupsReturnsChain

C1_DefaultDomainWitness ==
    /\ Url = "okta.com"
    /\ Returned(1, "Groups") /\ opUser[1] = ProvUser /\ healthy[1]
    /\ nPages = MaxPages
    /\ Len(result[1].val.items) >= 2

\* C2: when Groups returns an error, the value beside it is the buffer of
\* the page whose call failed (empty when the failure is a non-200 status),
\* not the items of the pages before it.
C2_ErrorReturnsFailingPageOnly ==
    \A p \in Callers :
        (Returned(p, "Groups") /\ result[p].err /= NoErr)
        => /\ result[p].val.items = callRet[p].dest.items
           /\ (result[p].err[1].kind = "status" => result[p].val.items = Empty)

C2_Witness ==
    /\ Returned(1, "Groups")
    /\ result[1].err /= NoErr
    /\ result[1].err[1].kind = "status"
    /\ nreq[1] >= 2
    /\ response[1] /= Empty

\* C3: used by one caller at a time, every request in flight carries no
\* cookie while no Session call has succeeded, and afterwards the cookie
\* sid=<the ID the latest successful Session call returned>.
C3_RequestsCarryLatestSession ==
    \A p \in Callers :
        pc[p] = "wait"
        => IF lastSessionID = Empty
           THEN lastReq[p].Cookie = Empty
           ELSE /\ Len(lastReq[p].Cookie) >= 3
                /\ SubSeq(lastReq[p].Cookie, 1, 3) = <<"sid", "=", lastSessionID[1]>>

C3_Witness ==
    /\ op[1] = "Groups" /\ pc[1] = "wait" /\ nreq[1] >= 2
    /\ lastSessionID = <<"s2">>
    /\ SubSeq(lastReq[1].Cookie, 1, 3) = <<"sid", "=", "s2">>

\* C4: an operation whose request was answered with a status other than 200
\* returns a structured error with that status, the errorCode of the body
\* (empty when the body does not parse) and the full URL of the request,
\* and a result the body was not decoded into.
C4_StatusError ==
    \A p \in Callers :
        (Returned(p, op[p]) /\ lastResp[p].kind = "http"
         /\ lastResp[p].status /= 200)
        => /\ result[p].err /= NoErr
           /\ result[p].err[1].kind = "status"
           /\ result[p].err[1].HTTPCode = lastResp[p].status
           /\ result[p].err[1].ErrorCode =
                 (IF lastResp[p].body.shape = "object"
                  THEN lastResp[p].body.errorCode ELSE "")
           /\ result[p].err[1].Endpoint = lastReq[p].url
           /\ lastReq[p].url = FullURL(org, Url, callArgs[p].endpoint)
           /\ result[p].val = ZeroDest

C4_Witness ==
    /\ Returned(1, "Session")
    /\ lastResp[1].kind = "http" /\ lastResp[1].status = 401
    /\ lastResp[1].body = ObjBody("s1", "E0000004")
    /\ result[1].err[1].ErrorCode = "E0000004"

\* C5: the stored cookie changes only as a Session call that succeeded
\* returns, and no step changes the org, the domain or the API token.
C5_CookieFrame ==
    [][/\ clientVars' = clientVars
       /\ SessionCookie' /= SessionCookie
          => \E p \in Callers :
                /\ op[p] = "Session" /\ pc[p] = "ret" /\ pc'[p] = "idle"
                /\ callRet[p].err = NoErr
                /\ result'[p].err = NoErr]_vars

C5_Witness ==
    /\ Returned(1, "Session")
    /\ result[1].err /= NoErr
    /\ SessionCookie /= Empty
    /\ SessionCookie[1].Value = "s1"

\* The steps a caller takes, as the pagination follower's transitions: a
\* returned operation (Done, Errored) issues nothing more, the next step
\* being a new invocation; a request is issued only as a call starts; and
\* a call that has returned is followed by HasNext -> Fetching (no error, a
\* non-empty rewritten link), by Done (no error, an empty one) or by Errored
\* (an error), the other operations returning whatever the call returned.
C6_Step(p) ==
    /\ (pc[p] = "idle" /\ pc'[p] /= "idle")
       => (pc'[p] = "call" /\ nreq'[p] = 0)
    /\ (nreq'[p] /= nreq[p] /\ pc[p] /= "idle")
       => (pc[p] = "call" /\ pc'[p] = "wait" /\ nreq'[p] = nreq[p] + 1)
    /\ (pc[p] = "ret" /\ pc'[p] /= "ret")
       => IF op[p] = "Groups"
          THEN \/ /\ callRet[p].err = NoErr /\ nextLink'[p] /= Empty
                  /\ pc'[p] = "call"
                  /\ callArgs'[p].endpoint = nextLink'[p]
               \/ /\ callRet[p].err = NoErr /\ nextLink'[p] = Empty
                  /\ pc'[p] = "idle" /\ result'[p].err = NoErr
               \/ /\ callRet[p].err /= NoErr
                  /\ pc'[p] = "idle" /\ result'[p].err = callRet[p].err
          ELSE pc'[p] = "idle" /\ result'[p].err = callRet[p].err

C6_ExactlyOne(p) ==
    (pc[p] = "ret" /\ pc'[p] = "idle" /\ op[p] \in SimpleOps) => nreq[p] = 1

C6_OneUnlessNotBuilt(p) ==
    (pc[p] = "ret" /\ pc'[p] = "idle" /\ op[p] \in SimpleOps)
    => nreq[p] = (IF callRet[p].err /= NoErr
                     /\ callRet[p].err[1].kind = "newrequest" THEN 0 ELSE 1)

\* C6 as stated: the follower takes only the transitions Fetching -> HasNext
\* -> Fetching, Fetching -> Done and Fetching -> Errored, Done and Errored
\* are terminal, and Authenticate, Session, User and AppLinks issue exactly
\* one request per invocation whatever the outcome.
C6_AsStated ==
    [][\A p \in Callers : C6_Step(p) /\ C6_ExactlyOne(p)]_vars

\* C6 as amended: the same transitions, and Authenticate, Session, User and
\* AppLinks issue exactly one request per invocation, except that they issue
\* none when the request cannot be built (http.NewRequest fails).
C6_FollowerTransitions ==
    [][\A p \in Callers : C6_Step(p) /\ C6_OneUnlessNotBuilt(p)]_vars

C6_Witness ==
    /\ Returned(1, "Groups")
    /\ result[1].err /= NoErr
    /\ nreq[1] >= 2
    /\ healthy[1] = FALSE

\* C7: with two unsynchronized callers, the requests of one operation carry
\* different cookies only when another caller's Session call succeeded while
\* that operation ran; and that does happen to a Groups call (the witness).
C7_MixedCookiesOnlyByRace ==
    \A p \in Callers : Cardinality(opCookies[p]) > 1 => intruded[p]

C7_Witness ==
    /\ op[1] = "Groups" /\ pc[1] = "wait" /\ nreq[1] >= 2
    /\ op[2] = "Session"
    /\ Cardinality(opCookies[1]) > 1
    /\ healthy[1]

\* C8: when the next-page link of a page of a Groups call is
\* <https://{org}.{domain}/api/v1/E>; rel="next", the rewritten link is E
\* and the next request goes to https://{org}.{domain}/api/v1/E.
C8_RewriteYieldsEndpoint ==
    \A p \in Callers : \A k \in 1..(MaxPages + 1) :
        (op[p] = "Groups" /\ pc[p] = "call" /\ nreq[p] >= 1
         /\ callRet[p].link = NextLinkTo(k))
        => /\ nextLink[p] = PageEndpoint(k)
           /\ BuildRequest(p).url = PageURL(k)

\* The same on a client whose domain is the one NewClient sets.
C8_OnDefaultDomain == Url = "okta.com" => C8_RewriteYieldsEndpoint

\* C9: the link call returns is the second Link value when the status is
\* 200, the body decoded and there are exactly two Link values, and is empty
\* otherwise; so Groups goes on to another page only after such an answer.
C9_NextLink ==
    \A p \in Callers :
        /\ pc[p] = "ret"
           => callRet[p].link =
                 (IF /\ lastResp[p].kind = "http" /\ lastResp[p].status = 200
                     /\ callRet[p].err = NoErr /\ Len(lastResp[p].links) = 2
                  THEN lastResp[p].links[2] ELSE Empty)
        /\ (op[p] = "Groups" /\ pc[p] = "call" /\ nreq[p] >= 1)
           => /\ Len(lastResp[p].links) = 2
              /\ lastResp[p].status = 200

C9_Witness ==
    /\ Returned(1, "Groups")
    /\ result[1].err = NoErr
    /\ lastResp[1].status = 200
    /\ Len(lastResp[1].links) = 3
    /\ nreq[1] = 1
    /\ nPages >= 2

\* The provider has just served a page that fails or offers no next link.
TerminalServed(p) ==
    /\ op[p] = "Groups" /\ pc[p] = "ret"
    /\ (callRet[p].err /= NoErr \/ callRet[p].link = Empty)

\* C10: a Groups call returns, provided every request returns (the fairness
\* of LiveSpec) and the provider comes to serve a page that fails or offers
\* no next link; and it returns only when such a page has been served.
C10_GroupsReturns ==
    /\ (GroupsActive(1) ~> TerminalServed(1))
       => (GroupsActive(1) ~> ~GroupsActive(1))
    /\ [][(GroupsActive(1) /\ ~GroupsActive(1)') => TerminalServed(1)]_vars

\* Without the proviso: every Groups call returns.
C10_AlwaysReturns == GroupsActive(1) ~> ~GroupsActive(1)

C10_Witness ==
    /\ Returned(1, "Groups")
    /\ result[1].err = NoErr
    /\ nreq[1] = ReqCap
    /\ lastResp[1].links = <<SelfLink(1)>>

====
